---- MODULE Spec2Model ----
(***************************************************************************)
(* Model of gemmbitserial: the bit-packed BitSerialMatrix                  *)
(* (src/gemmbitserial.hpp), the block-size solver and GEMM context         *)
(* allocation (same file) and the bitmap-based matrix-vector product       *)
(* (src/gemm-bitserial.cpp).                                               *)
(***************************************************************************)
EXTENDS Integers, Naturals, Sequences, FiniteSets, TLC

VARIABLES
  pc,       \* position of the driver: which operation acted last
  bsm,      \* fields of the BitSerialMatrix (nbits, nrows, ..., issigned)
  data,     \* bsm.data: word offset -> set of bit positions that are 1
  io,       \* arguments and results of the last BitSerialMatrix call
  gemm,     \* operands and result of the last matrix-vector product
  blk       \* arguments and results of the last block-size computation

vars == <<pc, bsm, data, io, gemm, blk>>

(***************************************************************************)
(* Bounds of the model.                                                    *)
(***************************************************************************)
MaxSmallBits == 3     \* precisions 1..MaxSmallBits are explored exhaustively
MaxThres == 2         \* importRegularAndQuantize is called with 0..MaxThres thresholds
MaxOperandBits == 6   \* a row of the lhs operand holds at most this many bits
MaxDepth == 2         \* width of the rows handed to the matrix-vector product
MaxRows == 12         \* lhsRows / rhsRows / rows handed to the block-size code
MaxBlock == 8         \* largest bs_max handed to finetuneBlockSize

(***************************************************************************)
(* Program constants.                                                      *)
(***************************************************************************)
bitsPerWord == 64     \* sizeof(uint64_t) * 8
ResultBytes == 4      \* sizeof(int32_t)
WideBits == 9         \* a precision wider than the uint8_t staging value

RECURSIVE Pow2(_)
Pow2(n) == IF n = 0 THEN 1 ELSE 2 * Pow2(n - 1)

\* bit b of the non-negative integer v
BitOf(v, b) == (v \div Pow2(b)) % 2 = 1

\* (uint8_t) v
ToUint8(v) == v % 256

Max(S) == CHOOSE m \in S : \A s \in S : s <= m
Min(S) == CHOOSE m \in S : \A s \in S : m <= s

(***************************************************************************)
(* Alignment utility.                                                      *)
(***************************************************************************)
\* alignTo without the rounding up
alignTo_noPad(in, af) == in

alignTo(in, af) ==
  IF in % af # 0 THEN in + (af - (in % af)) ELSE in

(***************************************************************************)
(* BitSerialMatrix: geometry and bit addressing.                           *)
(***************************************************************************)
isBipolar(m) == m.nbits = 1 /\ m.issigned

wordsPerRow(m) == m.ncols_a \div bitsPerWord

wordsPerBitplane(m) == m.nrows_a * wordsPerRow(m)

bitpos(col) == col % 64

\* offset of the container word of (bit, row, col) in the buffer
word(m, bit, row, col) ==
  bit * wordsPerBitplane(m) + row * wordsPerRow(m) + (col \div 64)

get(m, d, bit, row, col) == bitpos(col) \in d[word(m, bit, row, col)]

clearAll(d) == [w \in DOMAIN d |-> {}]

set(m, d, bit, row, col) ==
  [d EXCEPT ![word(m, bit, row, col)] = @ \cup {bitpos(col)}]

unset(m, d, bit, row, col) ==
  [d EXCEPT ![word(m, bit, row, col)] = @ \ {bitpos(col)}]

\* set() applied for every triple of S (the order of the calls is immaterial)
setEach(m, d, S) ==
  [w \in DOMAIN d |->
     d[w] \cup {bitpos(t[3]) : t \in {u \in S : word(m, u[1], u[2], u[3]) = w}}]

(***************************************************************************)
(* BitSerialMatrix: import and export.  Source and destination buffers are *)
(* flat, indexed from 0, as in the code.                                   *)
(***************************************************************************)
Cells(m) == (0..(m.nrows - 1)) \X (0..(m.ncols - 1))

\* matrix[c * nrows + r] or matrix[r * ncols + c]
readElem(m, matrix, colMajor, r, c) ==
  IF colMajor THEN matrix[c * m.nrows + r] ELSE matrix[r * m.ncols + c]

\* the uint8_t staging value importRegular decomposes (two's complement branch)
stageElem(m, e) ==
  IF m.issigned /\ e < 0
    THEN ToUint8(ToUint8(Pow2(m.nbits - 1)) + ToUint8(e + Pow2(m.nbits - 1)))
    ELSE ToUint8(e)

\* the (bit, row, col) triples importRegular passes to set()
importBits(m, matrix, colMajor) ==
  IF isBipolar(m)
    THEN {<<0, rc[1], rc[2]>> : rc \in
            {x \in Cells(m) : readElem(m, matrix, colMajor, x[1], x[2]) > 0}}
    ELSE {t \in (0..(m.nbits - 1)) \X (0..(m.nrows - 1)) \X (0..(m.ncols - 1)) :
            BitOf(stageElem(m, readElem(m, matrix, colMajor, t[2], t[3])), t[1])}

\* importRegular without its leading clearAll
importRegular_noClear(m, d, matrix, colMajor) ==
  setEach(m, d, importBits(m, matrix, colMajor))

importRegular(m, d, matrix, colMajor) ==
  setEach(m, clearAll(d), importBits(m, matrix, colMajor))

\* the quantisation loop over t = 0 .. nThres-1: first t with
\* elem <= thresholds[t * nrows + r]; t + 1 once the last one is crossed;
\* the element itself when the loop body never runs
quantize(m, e, thresholds, nThres, r) ==
  LET hit == {t \in 0..(nThres - 1) : e <= thresholds[t * m.nrows + r]}
  IN  IF nThres <= 0 THEN e
      ELSE IF hit # {} THEN Min(hit)
      ELSE nThres

quantBits(m, matrix, thresholds, nThres, colMajor) ==
  {t \in (0..(m.nbits - 1)) \X (0..(m.nrows - 1)) \X (0..(m.ncols - 1)) :
     BitOf(ToUint8(quantize(m, readElem(m, matrix, colMajor, t[2], t[3]),
                            thresholds, nThres, t[2])), t[1])}

importRegularAndQuantize(m, d, matrix, thresholds, nThres, colMajor) ==
  setEach(m, clearAll(d), quantBits(m, matrix, thresholds, nThres, colMajor))

RECURSIVE exportElem(_, _, _, _, _)
\* the loop over b of exportRegular, for bits b .. nbits-1
exportElem(m, d, r, c, b) ==
  IF b >= m.nbits THEN 0
  ELSE (IF get(m, d, b, r, c)
          THEN (IF b = m.nbits - 1 /\ m.issigned THEN 0 - Pow2(b) ELSE Pow2(b))
          ELSE 0)
       + exportElem(m, d, r, c, b + 1)

exportRegular(m, d) ==
  [i \in 0..(m.nrows * m.ncols - 1) |->
     LET r == i \div m.ncols
         c == i % m.ncols
     IN  IF isBipolar(m)
           THEN (IF get(m, d, 0, r, c) THEN 1 ELSE -1)
           ELSE exportElem(m, d, r, c, 0)]

(***************************************************************************)
(* State before any call, and the inputs the operations are driven with.   *)
(***************************************************************************)
NoBsm == [nbits |-> 0, nrows |-> 0, ncols |-> 0, nrows_a |-> 0, ncols_a |-> 0,
          issigned |-> FALSE]

NoIo == [outcome |-> "none", args |-> <<>>, src |-> <<>>, colMajor |-> FALSE,
         thr |-> <<>>, nThres |-> 0, dst |-> <<>>, idx |-> <<>>]

NoGemm == [A |-> <<>>, x |-> <<>>, cols |-> 0, Abits |-> 0, xbits |-> 0,
           Asigned |-> FALSE, xsigned |-> FALSE, bsA |-> <<>>, bsx |-> <<>>,
           lhs |-> [m |-> NoBsm, d |-> <<>>], rhs |-> [m |-> NoBsm, d |-> <<>>],
           res |-> <<>>]

NoBlk == [args |-> <<>>, lhsBlock |-> 0, rhsBlock |-> 0, ret |-> 0,
          ctx |-> [lhsBlock |-> 0, rhsBlock |-> 0, branch |-> "none",
                   lhs |-> NoBsm, rhs |-> NoBsm, resLen |-> 0]]

Init ==
  /\ pc = "start"
  /\ bsm = NoBsm
  /\ data = <<>>
  /\ io = NoIo
  /\ gemm = NoGemm
  /\ blk = NoBlk

\* values an element of precision nbits may take
Range(nbits, issigned) ==
  IF nbits = 1 /\ issigned THEN {-1, 1}
  ELSE IF issigned THEN (0 - Pow2(nbits - 1))..(Pow2(nbits - 1) - 1)
  ELSE 0..(Pow2(nbits) - 1)

\* the elements the model draws: every value of a small precision, the
\* extremes and the values around 2^8 of a wide one
Elems(nbits, issigned) ==
  IF nbits <= MaxSmallBits THEN Range(nbits, issigned)
  ELSE Range(nbits, issigned) \cap
         {0 - Pow2(nbits - 1), -1, 0, 255, 256, Pow2(nbits) - 1}

\* what an uninitialised buffer of n words may hold: the model draws one of
\* three fill patterns (all zero among them)
GarbageWords == {{}, {0}, {1, 63}}

Uninit(n) == {[w \in 0..(n - 1) |-> g] : g \in GarbageWords}

(***************************************************************************)
(* BitSerialMatrix operations as actions.                                  *)
(***************************************************************************)
\* the fields BitSerialMatrix::alloc fills in
allocBsm(nb, nr, nc, sg, ra, ca) ==
  [nbits |-> nb, nrows |-> nr, ncols |-> nc,
   nrows_a |-> alignTo(nr, ra), ncols_a |-> alignTo(nc, ca), issigned |-> sg]

\* BitSerialMatrix::alloc: no argument is checked, the buffer comes from
\* new uint64_t[n] and is not initialised
Alloc(nb, nr, nc, sg, ra, ca) ==
  /\ pc = "start"
  /\ LET m == allocBsm(nb, nr, nc, sg, ra, ca)
     IN  /\ bsm' = m
         /\ data' \in Uninit(nb * wordsPerBitplane(m))
  /\ io' = [NoIo EXCEPT !.outcome = "ok", !.args = <<nb, nr, nc, sg, ra, ca>>]
  /\ pc' = "alloc"
  /\ UNCHANGED <<gemm, blk>>

\* BitSerialMatrix::dealloc
Dealloc ==
  /\ pc # "start" /\ pc # "dealloc"
  /\ data' = <<>>
  /\ pc' = "dealloc"
  /\ UNCHANGED <<bsm, io, gemm, blk>>

Allocated == pc \notin {"start", "dealloc"}

ClearAll ==
  /\ Allocated
  /\ data' = clearAll(data)
  /\ io' = [NoIo EXCEPT !.outcome = io.outcome, !.args = io.args]
  /\ pc' = "clearAll"
  /\ UNCHANGED <<bsm, gemm, blk>>

\* set and unset are called with indices inside the allocated extents
Set(bit, row, col) ==
  /\ Allocated
  /\ bit < bsm.nbits /\ row < bsm.nrows_a /\ col < bsm.ncols_a
  /\ data' = set(bsm, data, bit, row, col)
  /\ io' = [NoIo EXCEPT !.outcome = io.outcome, !.args = io.args,
                        !.idx = <<bit, row, col>>]
  /\ pc' = "set"
  /\ UNCHANGED <<bsm, gemm, blk>>

Unset(bit, row, col) ==
  /\ Allocated
  /\ bit < bsm.nbits /\ row < bsm.nrows_a /\ col < bsm.ncols_a
  /\ data' = unset(bsm, data, bit, row, col)
  /\ io' = [NoIo EXCEPT !.outcome = io.outcome, !.args = io.args,
                        !.idx = <<bit, row, col>>]
  /\ pc' = "unset"
  /\ UNCHANGED <<bsm, gemm, blk>>

ImportRegular(matrix, colMajor) ==
  /\ Allocated
  /\ DOMAIN matrix = 0..(bsm.nrows * bsm.ncols - 1)
  /\ data' = importRegular(bsm, data, matrix, colMajor)
  /\ io' = [NoIo EXCEPT !.outcome = io.outcome, !.args = io.args,
                        !.src = matrix, !.colMajor = colMajor]
  /\ pc' = "importRegular"
  /\ UNCHANGED <<bsm, gemm, blk>>

\* assert(!issigned) guards the call
ImportRegularAndQuantize(matrix, thresholds, nThres, colMajor) ==
  /\ Allocated
  /\ ~bsm.issigned
  /\ DOMAIN matrix = 0..(bsm.nrows * bsm.ncols - 1)
  /\ DOMAIN thresholds = 0..(nThres * bsm.nrows - 1)
  /\ data' = importRegularAndQuantize(bsm, data, matrix, thresholds, nThres, colMajor)
  /\ io' = [NoIo EXCEPT !.outcome = io.outcome, !.args = io.args,
                        !.src = matrix, !.colMajor = colMajor,
                        !.thr = thresholds, !.nThres = nThres]
  /\ pc' = "importRegularAndQuantize"
  /\ UNCHANGED <<bsm, gemm, blk>>

\* exportRegular right after an import: the arguments of the import stay on
\* record next to the exported buffer
ExportRegular ==
  /\ pc \in {"importRegular", "importRegularAndQuantize"}
  /\ io' = [io EXCEPT !.dst = exportRegular(bsm, data)]
  /\ pc' = IF pc = "importRegular" THEN "exportRegular" ELSE "exportQuantized"
  /\ UNCHANGED <<bsm, data, gemm, blk>>

(***************************************************************************)
(* Specification of alloc / dealloc, driven with valid and invalid         *)
(* arguments.                                                              *)
(***************************************************************************)
AllocBits == {0, 1, MaxSmallBits, 64, 65}
AllocAligns == {1, 32, 64, 128}

NextAlloc ==
  \/ \E nb \in AllocBits, nr \in {1, 5}, nc \in {1, 70}, sg \in BOOLEAN,
        ra \in {1, 8}, ca \in AllocAligns : Alloc(nb, nr, nc, sg, ra, ca)
  \/ Dealloc

SpecAlloc == Init /\ [][NextAlloc]_vars

\* the arguments the specification of alloc declares invalid
InvalidArgs(a) == a[6] % 64 # 0 \/ a[1] = 0 \/ a[1] > 64

\* C6: immediately after an alloc with valid arguments every one of the
\* nbits * nrows_a * (ncols_a / 64) words of the buffer is zero, so get() is
\* false at every index of the allocated extents.
CexC6 ==
  (pc = "alloc" /\ ~InvalidArgs(io.args)) =>
    /\ DOMAIN data = 0..(bsm.nbits * bsm.nrows_a * (bsm.ncols_a \div 64) - 1)
    /\ \A w \in DOMAIN data : data[w] = {}

\* C8: an alloc call with colalign mod 64 # 0, nbits = 0 or nbits > 64 ends in
\* an error outcome and never returns a usable matrix.
CexC8 ==
  (pc = "alloc" /\ InvalidArgs(io.args)) => io.outcome = "error"

(***************************************************************************)
(* Specification of the import / export round trip.                        *)
(***************************************************************************)
RoundTripBits == (1..MaxSmallBits) \cup {WideBits}

NextRoundTrip ==
  \/ \E nb \in RoundTripBits, sg \in BOOLEAN : Alloc(nb, 2, 2, sg, 1, 64)
  \/ /\ pc = "alloc"
     /\ \E colMajor \in BOOLEAN :
          \E matrix \in [0..3 -> Elems(bsm.nbits, bsm.issigned)] :
            ImportRegular(matrix, colMajor)
  \/ ExportRegular

SpecRoundTrip == Init /\ [][NextRoundTrip]_vars

\* C2: exportRegular after importRegular reproduces every logical element
\* M[r][c] of an in-range matrix, for row-major and column-major sources and
\* every precision alloc accepts.
CexC2 ==
  pc = "exportRegular" =>
    \A rc \in Cells(bsm) :
      io.dst[rc[1] * bsm.ncols + rc[2]]
        = readElem(bsm, io.src, io.colMajor, rc[1], rc[2])

(***************************************************************************)
(* Specification of the quantising import.                                 *)
(***************************************************************************)
NextQuant ==
  \/ \E nb \in 2..MaxSmallBits : Alloc(nb, 2, 1, FALSE, 1, 64)
  \/ /\ pc = "alloc"
     /\ \E nThres \in 0..MaxThres, colMajor \in BOOLEAN :
          \E matrix \in [0..1 -> 0..3] :
            \E thresholds \in [0..(nThres * 2 - 1) -> 0..2] :
              ImportRegularAndQuantize(matrix, thresholds, nThres, colMajor)
  \/ ExportRegular

SpecQuant == Init /\ [][NextQuant]_vars

\* the quantised value the specification asks for
quantLevel(e, thresholds, nThres, nrows, r) ==
  LET hit == {t \in 0..(nThres - 1) : e <= thresholds[t * nrows + r]}
  IN  IF hit # {} THEN Min(hit) ELSE nThres

\* C7: for every numThres >= 0 with numThres < 2^nbits, exportRegular after
\* importRegularAndQuantize returns at (r, c) the smallest t with
\* src <= thresholds[t][r], or numThres when there is none.
CexC7 ==
  (pc = "exportQuantized" /\ io.nThres < Pow2(bsm.nbits)) =>
    \A rc \in Cells(bsm) :
      io.dst[rc[1] * bsm.ncols + rc[2]]
        = quantLevel(readElem(bsm, io.src, io.colMajor, rc[1], rc[2]),
                     io.thr, io.nThres, bsm.nrows, rc[1])

(***************************************************************************)
(* Specification of a BitSerialMatrix under arbitrary sequences of         *)
(* clearAll, set, unset and the two imports.  The matrix is 1 x 1 padded   *)
(* to 2 x 64; set and unset address the logical cell and padded cells.     *)
(***************************************************************************)
BsmBits == {1, 2}
ColSample == {0, 1}

NextBSM ==
  \/ \E nb \in BsmBits, sg \in BOOLEAN : Alloc(nb, 1, 1, sg, 2, 64)
  \/ ClearAll
  \/ \E bit \in 0..(Max(BsmBits) - 1), row \in 0..1, col \in ColSample :
       Set(bit, row, col)
  \/ \E bit \in 0..(Max(BsmBits) - 1), row \in 0..1, col \in ColSample :
       Unset(bit, row, col)
  \/ /\ Allocated
     /\ \E colMajor \in BOOLEAN :
          \E matrix \in [0..0 -> Elems(bsm.nbits, bsm.issigned)] :
            ImportRegular(matrix, colMajor)
  \/ \E nThres \in 0..1, colMajor \in BOOLEAN :
       \E matrix \in [0..0 -> 0..2] :
         \E thresholds \in [0..(nThres - 1) -> 0..1] :
           ImportRegularAndQuantize(matrix, thresholds, nThres, colMajor)

SpecBSM == Init /\ [][NextBSM]_vars

\* the padded cells of the buffer that hold a 1
PadBits ==
  {t \in (0..(bsm.nbits - 1)) \X (0..(bsm.nrows_a - 1)) \X (0..(bsm.ncols_a - 1)) :
     /\ (t[2] >= bsm.nrows \/ t[3] >= bsm.ncols)
     /\ get(bsm, data, t[1], t[2], t[3])}

PaddingZero == PadBits = {}

Logical(idx) == idx[2] < bsm.nrows /\ idx[3] < bsm.ncols

BsmCalls == {"clearAll", "set", "unset", "importRegular", "importRegularAndQuantize"}

toBitSerialVector(vec, n, bits) ==
  [b \in 1..bits |-> {i \in 1..n : BitOf(vec[i], b - 1)}]

\* toBitSerialMatrix: one bit-serial vector per row of the buffer
toBitSerialMatrix(mat, rows, cols, bits) ==
  [r \in 1..rows |->
     toBitSerialVector([i \in 1..cols |-> mat[(r - 1) * cols + i]], cols, bits)]

\* Roaring::and_cardinality
and_cardinality(a, b) == Cardinality(a \cap b)

\* one (Abit, xbit) step of the inner loops: AND and popcount, scale by
\* 2^(Abit + xbit), negate iff exactly one of the two bits is a sign bit.
\* The uint32_t negation followed by the int32_t accumulation is integer
\* subtraction as long as no value reaches 2^31, which the bounds ensure.
\* (below: the step without the sign correction)
contribution_unsignedOnly(crow, x, Abit, xbit, Abits, xbits, Asigned, xsigned) ==
  and_cardinality(crow[Abit + 1], x[xbit + 1]) * Pow2(Abit + xbit)

contribution(crow, x, Abit, xbit, Abits, xbits, Asigned, xsigned) ==
  LET contr == and_cardinality(crow[Abit + 1], x[xbit + 1]) * Pow2(Abit + xbit)
      neg_A == Asigned /\ (Abit = Abits - 1)
      neg_x == xsigned /\ (xbit = xbits - 1)
      neg   == neg_A # neg_x
  IN  IF neg THEN 0 - contr ELSE contr

RECURSIVE rowResult(_, _, _, _, _, _, _)
\* the two nested loops, from pair number k = Abit * xbits + xbit on
rowResult(crow, x, k, Abits, xbits, Asigned, xsigned) ==
  IF k >= Abits * xbits THEN 0
  ELSE contribution(crow, x, k \div xbits, k % xbits, Abits, xbits, Asigned, xsigned)
       + rowResult(crow, x, k + 1, Abits, xbits, Asigned, xsigned)

\* bitSerialMatrixVector: rows = A.size(), Abits = A[0].size(), xbits = x.size()
bitSerialMatrixVector(A, x, cols, Asigned, xsigned) ==
  [r \in 1..Len(A) |-> rowResult(A[r], x, 0, Len(A[1]), Len(x), Asigned, xsigned)]

(***************************************************************************)
(* The bipolar x bipolar kernel on two BitSerialMatrix operands.  Its code *)
(* (arch-generic.hpp) is not part of the sources at hand; it is modelled   *)
(* from the specification: result = 2p - k, p the popcount of the AND of   *)
(* the two stored bit rows over all words of the row, k the depth.         *)
(***************************************************************************)
rowAndPopcount(ml, dl, i, mr, dr, j) ==
  LET words == 0..(wordsPerRow(ml) - 1)
      RECURSIVE sum(_)
      sum(w) == IF w \notin words THEN 0
                ELSE Cardinality(dl[word(ml, 0, i, 0) + w] \cap dr[word(mr, 0, j, 0) + w])
                     + sum(w + 1)
  IN  sum(0)

gemmBipolar(ml, dl, mr, dr) ==
  [i \in 0..(ml.nrows * mr.nrows - 1) |->
     2 * rowAndPopcount(ml, dl, i \div mr.nrows, mr, dr, i % mr.nrows) - ml.ncols]

(***************************************************************************)
(* Specification of the products.  The operands are drawn element by       *)
(* element from the range of their precision (the wider the lhs rows, the  *)
(* fewer bits per element); A has two rows, a row and its reversal.        *)
(***************************************************************************)
GemmBitsX == {1, 2}

Reverse(s) == [i \in 1..Len(s) |-> s[Len(s) + 1 - i]]

\* Sum_k a[k] * b[k]
RECURSIVE dot(_, _, _)
dot(a, b, k) == IF k > Len(a) THEN 0 ELSE a[k] * b[k] + dot(a, b, k + 1)

\* the caller converts both operands with toBitSerialMatrix / toBitSerialVector
GemmLoad(Abits, xbits, Asigned, xsigned, cols, row, xv) ==
  /\ pc = "start"
  /\ LET Amat == row \o Reverse(row)
     IN gemm' = [NoGemm EXCEPT
          !.A = Amat, !.x = xv, !.cols = cols, !.Abits = Abits, !.xbits = xbits,
          !.Asigned = Asigned, !.xsigned = xsigned,
          !.bsA = toBitSerialMatrix([i \in 1..(2 * cols) |-> ToUint8(Amat[i])],
                                    2, cols, Abits),
          !.bsx = toBitSerialVector([i \in 1..cols |-> ToUint8(xv[i])], cols, xbits)]
  /\ pc' = "gemmLoaded"
  /\ UNCHANGED <<bsm, data, io, blk>>

GemmRun ==
  /\ pc = "gemmLoaded"
  /\ gemm' = [gemm EXCEPT !.res =
       bitSerialMatrixVector(gemm.bsA, gemm.bsx, gemm.cols, gemm.Asigned, gemm.xsigned)]
  /\ pc' = "gemmDone"
  /\ UNCHANGED <<bsm, data, io, blk>>

\* a zeroed 1 x k bipolar BitSerialMatrix holding the row v
bipolarOperand(k, v) ==
  LET m == allocBsm(1, 1, k, TRUE, 1, 64)
  IN  [m |-> m,
       d |-> importRegular(m, [w \in 0..(wordsPerBitplane(m) - 1) |-> {}],
                           [i \in 0..(k - 1) |-> v[i + 1]], FALSE)]

BipolarLoad(k, a, b) ==
  /\ pc = "start"
  /\ gemm' = [NoGemm EXCEPT !.A = a, !.x = b, !.cols = k, !.Abits = 1, !.xbits = 1,
                            !.Asigned = TRUE, !.xsigned = TRUE,
                            !.lhs = bipolarOperand(k, a), !.rhs = bipolarOperand(k, b)]
  /\ pc' = "bipolarLoaded"
  /\ UNCHANGED <<bsm, data, io, blk>>

BipolarRun ==
  /\ pc = "bipolarLoaded"
  /\ isBipolar(gemm.lhs.m) /\ isBipolar(gemm.rhs.m)
  /\ gemm' = [gemm EXCEPT !.res =
       gemmBipolar(gemm.lhs.m, gemm.lhs.d, gemm.rhs.m, gemm.rhs.d)]
  /\ pc' = "bipolarDone"
  /\ UNCHANGED <<bsm, data, io, blk>>

NextGemm ==
  \/ \E Abits \in 1..MaxOperandBits, xbits \in GemmBitsX, Asigned \in BOOLEAN,
        xsigned \in BOOLEAN, cols \in 1..MaxDepth :
       /\ pc = "start"
       /\ Abits * cols <= MaxOperandBits
       /\ ~(Abits = 1 /\ Asigned) /\ ~(xbits = 1 /\ xsigned)
       /\ \E row \in [1..cols -> Range(Abits, Asigned)] :
            \E xv \in [1..cols -> Range(xbits, xsigned)] :
              GemmLoad(Abits, xbits, Asigned, xsigned, cols, row, xv)
  \/ GemmRun
  \/ \E k \in 1..MaxDepth :
       pc = "start" /\
       \E a \in [1..k -> {-1, 1}] : \E b \in [1..k -> {-1, 1}] : BipolarLoad(k, a, b)
  \/ BipolarRun

SpecGemm == Init /\ [][NextGemm]_vars

\* row r of the buffer A as a sequence
rowOf(A, cols, r) == [i \in 1..cols |-> A[(r - 1) * cols + i]]

\* C1: for non-bipolar operands with elements in range, every result of the
\* bit-serial product (popcount of the AND of each pair of bit planes,
\* weighted by 2^(bL+bR), negated iff exactly one of the two is the top bit of
\* a signed operand) equals the integer inner product Sum_k lhs[i,k] * rhs[j,k],
\* for all four combinations of signedness.
ThmC1 ==
  pc = "gemmDone" =>
    /\ Len(gemm.res) = 2
    /\ \A r \in 1..2 : gemm.res[r] = dot(rowOf(gemm.A, gemm.cols, r), gemm.x, 1)

\* a product of a signed by an unsigned operand whose result is negative: the
\* sign correction has acted
WitC1 ==
  /\ pc = "gemmDone" /\ gemm.Asigned /\ ~gemm.xsigned
  /\ gemm.Abits > 1 /\ gemm.xbits > 1 /\ gemm.cols > 1
  /\ gemm.res[1] < 0 /\ gemm.res[2] > 0

\* C3: for two bipolar rows A, B over {-1, +1} of width k the kernel's result
\* 2p - k, p the popcount of the AND of the stored bit rows, equals the
\* inner product Sum_k A[k] * B[k] of the sign-expanded rows.
CexC3 ==
  pc = "bipolarDone" => gemm.res[0] = dot(gemm.A, gemm.x, 1)

(***************************************************************************)
(* Block-size solver, fine-tuner and GEMM context allocation.              *)
(***************************************************************************)
RECURSIVE sqrtSearch(_, _, _)
\* the largest s in lo..hi with s * s <= n
sqrtSearch(n, lo, hi) ==
  IF lo >= hi THEN lo
  ELSE LET mid == (lo + hi + 1) \div 2
       IN  IF mid * mid <= n THEN sqrtSearch(n, mid, hi)
           ELSE sqrtSearch(n, lo, mid - 1)

floorSqrt(n) == sqrtSearch(n, 0, 46340)

ceilSqrt(n) == IF floorSqrt(n) * floorSqrt(n) = n THEN floorSqrt(n) ELSE floorSqrt(n) + 1

\* the coefficient a of the quadratic: sizeof(int32_t) * lhsMult * rhsMult
quadA(lhsMult, rhsMult) == ResultBytes * lhsMult * rhsMult

quadB(lhsMult, rhsMult, dBits) == dBits * (lhsMult + rhsMult)

\* b*b - 4*a*c with c = -cacheBits, the argument of sqrt
discrSquared(lhsMult, rhsMult, cacheBits, dBits) ==
  quadB(lhsMult, rhsMult, dBits) * quadB(lhsMult, rhsMult, dBits)
    + 4 * quadA(lhsMult, rhsMult) * cacheBits

\* x0 = floor((-b + discr) / (2a)), x1 = floor((-b - discr) / (2a)) and
\* x = max(x0, x1); floor of a quotient by the integer 2a only needs the
\* floor (ceiling) of the square root.  The float arithmetic of the code is
\* exact on the inputs of the model.
solverX(lhsMult, rhsMult, cacheBits, dBits) ==
  LET a  == quadA(lhsMult, rhsMult)
      b  == quadB(lhsMult, rhsMult, dBits)
      D  == discrSquared(lhsMult, rhsMult, cacheBits, dBits)
      x0 == ((0 - b) + floorSqrt(D)) \div (2 * a)
      x1 == 0 - (((b + ceilSqrt(D)) + (2 * a - 1)) \div (2 * a))
  IN  IF x0 > x1 THEN x0 ELSE x1

\* assert(discr > 0) and assert(x > 0): whether computeBlockSize returns
solverReturns(lhsMult, rhsMult, cacheBits, dBits) ==
  /\ discrSquared(lhsMult, rhsMult, cacheBits, dBits) > 0
  /\ solverX(lhsMult, rhsMult, cacheBits, dBits) > 0

\* the pair (lhsBlock, rhsBlock) computeBlockSize stores
computeBlockSize(lhsMult, rhsMult, cacheBits, dBits) ==
  <<lhsMult * solverX(lhsMult, rhsMult, cacheBits, dBits),
    rhsMult * solverX(lhsMult, rhsMult, cacheBits, dBits)>>

RECURSIVE finetuneLoop(_, _, _, _, _)
\* the for loop of finetuneBlockSize from candidate ccand on
finetuneLoop(rows, ccand, bs_div, best_cand, min_penalty) ==
  IF ~(ccand > bs_div) THEN best_cand
  ELSE LET penalty == alignTo(rows, ccand) - rows
       IN  IF ccand % bs_div = 0 /\ penalty < min_penalty
             THEN finetuneLoop(rows, ccand - bs_div, bs_div, ccand, penalty)
             ELSE finetuneLoop(rows, ccand - bs_div, bs_div, best_cand, min_penalty)

finetuneBlockSize(rows, bs_max, bs_div) ==
  finetuneLoop(rows, bs_max, bs_div, bs_max, alignTo(rows, bs_max) - rows)

\* (alignTo(rows, block) - rows) > 0.1 * rows
tooMuchPadding(rows, block) == 10 * (alignTo(rows, block) - rows) > rows

\* allocGEMMContext_base up to the two alloc calls: the block sizes, the
\* branch taken and the two allocated matrices
gemmContext(lhsRows, depth, rhsRows, lhsBits, rhsBits, lhsSigned, rhsSigned, regblock_lhs, regblock_d, regblock_rhs, cacheBits) ==
  LET depth_al == alignTo(depth, regblock_d * 64)
      solved   == computeBlockSize(regblock_lhs, regblock_rhs, cacheBits, depth_al)
      fallback == solved[1] > lhsRows \/ solved[2] > rhsRows
      tuneL    == ~fallback /\ tooMuchPadding(lhsRows, solved[1])
      tuneR    == ~fallback /\ tooMuchPadding(rhsRows, solved[2])
      lhsBlock == IF fallback THEN alignTo(lhsRows, regblock_lhs)
                  ELSE IF tuneL THEN finetuneBlockSize(lhsRows, solved[1], regblock_lhs)
                  ELSE solved[1]
      rhsBlock == IF fallback THEN alignTo(rhsRows, regblock_rhs)
                  ELSE IF tuneR THEN finetuneBlockSize(rhsRows, solved[2], regblock_rhs)
                  ELSE solved[2]
  IN  [lhsBlock |-> lhsBlock, rhsBlock |-> rhsBlock,
       branch |-> IF fallback THEN "fallback"
                  ELSE IF tuneL \/ tuneR THEN "finetuned" ELSE "kept",
       lhs |-> allocBsm(lhsBits, lhsRows, depth, lhsSigned, lhsBlock, regblock_d * 64),
       rhs |-> allocBsm(rhsBits, rhsRows, depth, rhsSigned, rhsBlock, regblock_d * 64),
       resLen |-> lhsRows * rhsRows]

(***************************************************************************)
(* Specification of the block-size code: each behaviour makes one call.    *)
(***************************************************************************)
\* computeBlockSize: stores the pair, or dies in one of its two assertions
ComputeBlockSize(lhsMult, rhsMult, cacheBits, dBits) ==
  /\ pc = "start"
  /\ IF solverReturns(lhsMult, rhsMult, cacheBits, dBits)
       THEN /\ blk' = [NoBlk EXCEPT
                  !.args = <<lhsMult, rhsMult, cacheBits, dBits>>,
                  !.lhsBlock = computeBlockSize(lhsMult, rhsMult, cacheBits, dBits)[1],
                  !.rhsBlock = computeBlockSize(lhsMult, rhsMult, cacheBits, dBits)[2]]
            /\ pc' = "computeBlockSize"
       ELSE /\ blk' = [NoBlk EXCEPT !.args = <<lhsMult, rhsMult, cacheBits, dBits>>]
            /\ pc' = "assertFailed"
  /\ UNCHANGED <<bsm, data, io, gemm>>

FinetuneBlockSize(rows, bs_max, bs_div) ==
  /\ pc = "start"
  /\ blk' = [NoBlk EXCEPT !.args = <<rows, bs_max, bs_div>>,
                          !.ret = finetuneBlockSize(rows, bs_max, bs_div)]
  /\ pc' = "finetuneBlockSize"
  /\ UNCHANGED <<bsm, data, io, gemm>>

AllocGEMMContext(lhsRows, depth, rhsRows, lhsBits, rhsBits, lhsSigned, rhsSigned, regblock_lhs, regblock_d, regblock_rhs, cacheBits) ==
  /\ pc = "start"
  /\ IF solverReturns(regblock_lhs, regblock_rhs, cacheBits,
                      alignTo(depth, regblock_d * 64))
       THEN /\ blk' = [NoBlk EXCEPT
                  !.args = <<lhsRows, depth, rhsRows, lhsBits, rhsBits, lhsSigned,
                             rhsSigned, regblock_lhs, regblock_d, regblock_rhs,
                             cacheBits>>,
                  !.ctx = gemmContext(lhsRows, depth, rhsRows, lhsBits, rhsBits,
                                      lhsSigned, rhsSigned, regblock_lhs, regblock_d,
                                      regblock_rhs, cacheBits)]
            /\ pc' = "allocGEMMContext"
       ELSE /\ blk' = [NoBlk EXCEPT
                  !.args = <<lhsRows, depth, rhsRows, lhsBits, rhsBits, lhsSigned,
                             rhsSigned, regblock_lhs, regblock_d, regblock_rhs,
                             cacheBits>>]
            /\ pc' = "assertFailed"
  /\ UNCHANGED <<bsm, data, io, gemm>>

CacheSizes == {64, 1024, 2048, 4096, 65536}
Depths == {64, 128, 256}

NextBlock ==
  \/ \E lhsMult \in 1..4, rhsMult \in 1..4, cacheBits \in CacheSizes, dBits \in Depths :
       ComputeBlockSize(lhsMult, rhsMult, cacheBits, dBits)
  \/ \E rows \in 1..MaxRows, bs_div \in 1..MaxBlock, k \in 1..MaxBlock :
       bs_div * k <= MaxBlock /\ FinetuneBlockSize(rows, bs_div * k, bs_div)
  \/ \E lhsRows \in 1..MaxRows, rhsRows \in 1..MaxRows, depth \in {1, 64, 65},
        regblock_lhs \in 1..2, regblock_rhs \in 1..2, cacheBits \in CacheSizes :
       AllocGEMMContext(lhsRows, depth, rhsRows, 2, 2, FALSE, TRUE,
                        regblock_lhs, 1, regblock_rhs, cacheBits)

SpecBlock == Init /\ [][NextBlock]_vars

\* C4: whenever computeBlockSize returns, the returned (L, R) satisfies
\* 32*L*R + d*(L+R) <= cacheBits, mL divides L and mR divides R.
CexC4 ==
  pc = "computeBlockSize" =>
    LET mL == blk.args[1]
        mR == blk.args[2]
        cacheBits == blk.args[3]
        d == blk.args[4]
    IN  /\ 32 * blk.lhsBlock * blk.rhsBlock + d * (blk.lhsBlock + blk.rhsBlock)
             <= cacheBits
        /\ blk.lhsBlock % mL = 0
        /\ blk.rhsBlock % mR = 0

\* the multiples of bs_div in the closed range [bs_div, bs_max]
Candidates(bs_max, bs_div) == {c \in bs_div..bs_max : c % bs_div = 0}

Penalty(rows, cand) == alignTo(rows, cand) - rows

\* C9: for bs_max a positive multiple of bs_div, finetuneBlockSize returns the
\* largest of the candidates of least padding among all multiples of bs_div
\* in [bs_div, bs_max], bs_div itself included.
CexC9 ==
  pc = "finetuneBlockSize" =>
    LET rows == blk.args[1]
        cands == Candidates(blk.args[2], blk.args[3])
        least == Min({Penalty(rows, c) : c \in cands})
    IN  blk.ret = Max({c \in cands : Penalty(rows, c) = least})

\* C10: whenever allocGEMMContext_base returns, in each of its three
\* branches, lhsBlock >= 1 divides lhs.nrows_a and rhsBlock >= 1 divides
\* rhs.nrows_a.
ThmC10 ==
  pc = "allocGEMMContext" =>
    /\ blk.ctx.branch \in {"fallback", "kept", "finetuned"}
    /\ blk.ctx.lhsBlock >= 1 /\ blk.ctx.rhsBlock >= 1
    /\ blk.ctx.lhs.nrows_a % blk.ctx.lhsBlock = 0
    /\ blk.ctx.rhs.nrows_a % blk.ctx.rhsBlock = 0
    /\ blk.ctx.lhs.nrows_a >= blk.ctx.lhs.nrows
    /\ blk.ctx.rhs.nrows_a >= blk.ctx.rhs.nrows

\* the fine-tuned branch has acted and the lhs is padded by several blocks
WitC10 ==
  /\ pc = "allocGEMMContext" /\ blk.ctx.branch = "finetuned"
  /\ blk.ctx.lhs.nrows_a > blk.ctx.lhs.nrows
  /\ blk.ctx.lhs.nrows_a > blk.ctx.lhsBlock
  /\ blk.ctx.lhsBlock > 1

(***************************************************************************)
(* Specification of bit addressing: set, unset and clearAll on matrices    *)
(* that alloc returns, for column alignments that are and are not          *)
(* multiples of 64.  A call whose container word lies beyond the buffer    *)
(* writes outside it (undefined behaviour) and is not made.                *)
(***************************************************************************)
AddrCols == {0, 64, 69}
AddrShapes == {<<1, 2>>, <<2, 1>>}      \* <<nbits, nrows>>

NextAddr ==
  \/ \E sh \in AddrShapes, nc \in {1, 70}, ca \in {1, 64, 128} :
       Alloc(sh[1], sh[2], nc, FALSE, 1, ca)
  \/ ClearAll
  \/ \E bit \in 0..1, row \in 0..1, col \in AddrCols :
       /\ Allocated
       /\ bit < bsm.nbits /\ row < bsm.nrows_a /\ col < bsm.ncols_a
       /\ word(bsm, bit, row, col) \in DOMAIN data
       /\ Set(bit, row, col)
  \/ \E bit \in 0..1, row \in 0..1, col \in AddrCols :
       /\ Allocated
       /\ bit < bsm.nbits /\ row < bsm.nrows_a /\ col < bsm.ncols_a
       /\ word(bsm, bit, row, col) \in DOMAIN data
       /\ Unset(bit, row, col)

SpecAddr == Init /\ [][NextAddr]_vars

\* the indices of the allocated extents
Triples(m) == (0..(m.nbits - 1)) \X (0..(m.nrows_a - 1)) \X (0..(m.ncols_a - 1))

\* the (word offset, bit position) pair a triple is stored at
address(m, t) == <<word(m, t[1], t[2], t[3]), bitpos(t[3])>>

InBuffer(m, d, t) == word(m, t[1], t[2], t[3]) \in DOMAIN d

\* distinct triples have distinct addresses, all inside the buffer
AddressingInjective(m, d) ==
  /\ \A t \in Triples(m) : InBuffer(m, d, t)
  /\ \A t \in Triples(m) : \A u \in Triples(m) :
       t # u => address(m, t) # address(m, u)

\* C11: within [0,nbits) x [0,nrows_a) x [0,ncols_a) distinct (bit, row, col)
\* triples map to distinct (word offset, bit position) pairs inside the
\* buffer; after set(b, r, c) get(b, r, c) is true, after unset(b, r, c) it is
\* false, and get of every other triple is unchanged by either call.
CexC11 ==
  [][/\ pc' = "alloc" => AddressingInjective(bsm', data')
     /\ pc' \in {"set", "unset"} =>
          /\ get(bsm', data', io'.idx[1], io'.idx[2], io'.idx[3]) = (pc' = "set")
          /\ \A u \in Triples(bsm') :
               (u # io'.idx /\ InBuffer(bsm', data', u)) =>
                 get(bsm', data', u[1], u[2], u[3]) = get(bsm, data, u[1], u[2], u[3])
    ]_vars

====
